---- MODULE Spec2Model ----
(***************************************************************************)
(* pixorter: snap-date reconciliation (date_extract.get_snap_date), the    *)
(* collection of pictures (picture_manip.collect_pictures) and the         *)
(* assignment of output paths (picture_manip.get_path_couples with         *)
(* picture.Picture.get_output_path).                                       *)
(***************************************************************************)
EXTENDS Integers, Sequences, FiniteSets, TLC

VARIABLES
    \* get_path_couples
    pictures,        \* the iterable passed to get_path_couples
    pass,            \* which call of get_path_couples is running (1, 2, ...)
    pos,             \* number of items the for loop has pulled in this pass
    used_paths,      \* the local set used_paths
    yielded,         \* the pairs this pass has yielded so far, in order
    first_pass,      \* the pairs the first pass yielded, once it has ended (<<>> before)
    curr_picture,    \* the global _CURR_PICTURE["picture"]: None, or <<picture>>
    pc               \* "idle" | "running" | "exhausted"

assign_vars == <<pictures, pass, pos, used_paths, yielded, first_pass, curr_picture, pc>>

VARIABLES
    \* get_snap_date
    img,                 \* the file get_snap_date is called on
    metadata_datetime,   \* local of get_snap_date
    filename_datetime,   \* local of get_snap_date
    warnings,            \* number of logging.warning calls during the call
    errors,              \* number of logging.error calls during the call
    snap_result,         \* the value returned
    snap_exc,            \* the name of the exception raised
    snap_pc              \* "idle" | "metadata" | "filename" | "reconcile" | "returned" | "raised"

snap_vars ==
    <<img, metadata_datetime, filename_datetime, warnings, errors, snap_result, snap_exc, snap_pc>>

VARIABLES
    \* collect_pictures
    walk,            \* the files walk_dir(root_path) produces, in order
    walk_pos,        \* number of files the for loop has pulled
    collected,       \* the Pictures yielded so far, in order
    skipped,         \* the files skipped after a NoMatchException, in order
    collect_exc,     \* the exception that ended the generator
    collect_pc       \* "idle" | "running" | "done" | "raised"

collect_vars == <<walk, walk_pos, collected, skipped, collect_exc, collect_pc>>

vars == <<assign_vars, snap_vars, collect_vars>>

\* Optional values are tuples: None is the empty tuple, a datetime is the tuple
\* of its six fields and a string is the tuple Text(...) below.
None == <<>>

\* a local that has not been assigned yet
Unset == <<"unset">>

\* no exception
NoExc == "none"

\* a group of the filename match that is None or empty, and so not passed on
NoGroup == -1

----------------------------------------------------------------------------
(* Bounds *)

\* longest iterable handed to get_path_couples
MaxPictures == 3

\* number of times get_path_couples is called on the same iterable
MaxPasses == 2

\* longest directory walk handed to collect_pictures
MaxFiles == 3

\* the sequences over S of length at most n
RECURSIVE SeqsUpTo(_, _)
SeqsUpTo(S, n) ==
    IF n = 0 THEN { <<>> }
    ELSE LET shorter == SeqsUpTo(S, n - 1) IN
         shorter \cup { Append(q, x) : q \in { r \in shorter : Len(r) = n - 1 }, x \in S }

----------------------------------------------------------------------------
(* datetime *)

DateTime(y, mo, d, h, mi, s) == <<y, mo, d, h, mi, s>>

year(d) == d[1]
month(d) == d[2]
day(d) == d[3]
hour(d) == d[4]
minute(d) == d[5]
second(d) == d[6]

IsLeap(y) == (y % 4 = 0 /\ y % 100 # 0) \/ y % 400 = 0

DaysInMonth(y, mo) ==
    IF mo = 2 THEN (IF IsLeap(y) THEN 29 ELSE 28)
    ELSE IF mo \in {4, 6, 9, 11} THEN 30
    ELSE 31

\* the range checks of the datetime constructor (a failure is a ValueError)
ValidDateTime(d) ==
    /\ year(d) \in 1..9999
    /\ month(d) \in 1..12
    /\ day(d) \in 1..DaysInMonth(year(d), month(d))
    /\ hour(d) \in 0..23
    /\ minute(d) \in 0..59
    /\ second(d) \in 0..59

\* datetime(**datetime_parts): parts holds NoGroup for a keyword that is not passed.
\* year, month and day are required (TypeError); hour, minute and second default to 0.
datetime_from_parts(parts) ==
    IF year(parts) = NoGroup \/ month(parts) = NoGroup \/ day(parts) = NoGroup
    THEN [exc |-> "TypeError", value |-> None]
    ELSE LET d == DateTime(year(parts), month(parts), day(parts),
                           IF hour(parts) = NoGroup THEN 0 ELSE hour(parts),
                           IF minute(parts) = NoGroup THEN 0 ELSE minute(parts),
                           IF second(parts) = NoGroup THEN 0 ELSE second(parts))
         IN  IF ValidDateTime(d) THEN [exc |-> NoExc, value |-> d]
             ELSE [exc |-> "ValueError", value |-> None]

\* A timestamp string is modelled by its layout, the numbers written in it and
\* what follows them:
\*   layout "exif"  is  YYYY:MM:DD HH:MM:SS      ("%Y:%m:%d %H:%M:%S")
\*   layout "iso"   is  YYYY-MM-DDTHH:MM:SS      ("%Y-%m-%dT%H:%M:%S")
\*   layout "empty" is  the empty string
\*   tail is "", ".000000Z" or "Z"
Text(layout, stamp, tail) == <<layout, stamp, tail>>

layout_of(s) == s[1]
stamp_of(s) == s[2]
tail_of(s) == s[3]

EmptyText == Text("empty", None, "")

\* truth value of an optional string
Truthy(s) == s # None /\ layout_of(s) # "empty"

\* a or b
PyOr(a, b) == IF Truthy(a) THEN a ELSE b

\* datetime_str.split(".")[0]
SplitDotFirst(s) ==
    IF tail_of(s) = ".000000Z" THEN Text(layout_of(s), stamp_of(s), "") ELSE s

\* datetime.strptime(s, format): the whole string has to match the format and
\* the numbers have to form a date, else ValueError
strptime(s, layout) ==
    IF layout_of(s) = layout /\ tail_of(s) = "" /\ ValidDateTime(stamp_of(s))
    THEN [exc |-> NoExc, value |-> stamp_of(s)]
    ELSE [exc |-> "ValueError", value |-> None]

----------------------------------------------------------------------------
(* globals.py (not part of the sources at hand) *)

VIDEO_EXTENSIONS == {"mp4", "mov"}

IMAGE_EXTENSIONS == {"jpg", "jpeg", "png", "tif", "tiff"}

SUPPORTED_EXTENSIONS == IMAGE_EXTENSIONS \cup VIDEO_EXTENSIONS

----------------------------------------------------------------------------
(* date_extract.py *)

\* A file is [path, open, exif, probe, match]:
\*   path   [stem, suffix], the Path of the file
\*   open   "ok", or the name of the exception PIL's open raises on it
\*   exif   None, or the tags [DateTime, DateTimeOriginal, DateTimeDigitized]
\*          of image.getexif(), each None (absent) or a string
\*   probe  what ffprobe gives: [exc |-> name of the exception met on the way to
\*          media["streams"][0]["tags"]["creation_time"], or None, creation_time]
\*   match  None when no regex of FILENAME_REGEXES matches the name, else the
\*          groups year..second of the first match, each its int(), or NoGroup
\*          when match.group(k) is None or empty

\* img_path.suffix[1:], for the suffixes used here (no lowercasing)
SuffixTail(suffix) ==
    CASE suffix = ".jpg" -> "jpg"
      [] suffix = ".mp4" -> "mp4"
      [] suffix = ".png" -> "png"
      [] suffix = ".mov" -> "mov"
      [] suffix = ""     -> ""
      [] OTHER           -> "txt"

\* get_date_from_filename, after the regex search
get_date_from_filename(match) ==
    IF match = None
    THEN [exc |-> "NoMatchException", value |-> None]
    ELSE datetime_from_parts(match)

\* get_date_from_video_metadata
get_date_from_video_metadata(probe) ==
    IF probe.exc = "NameError"
    THEN [exc |-> "NameError", value |-> None, warnings |-> 0, errors |-> 0]
    ELSE IF probe.exc \in {"KeyError", "JSONDecodeError", "FFmpegError"}
    THEN [exc |-> "NoMatchException", value |-> None, warnings |-> 0, errors |-> 1]
    ELSE IF probe.exc # NoExc
    THEN [exc |-> probe.exc, value |-> None, warnings |-> 0, errors |-> 0]
    ELSE LET datetime_str == SplitDotFirst(probe.creation_time)
             parsed == strptime(datetime_str, "iso")
         IN  IF parsed.exc = NoExc
             THEN [exc |-> NoExc, value |-> parsed.value, warnings |-> 0, errors |-> 0]
             ELSE [exc |-> "NoMatchException", value |-> None, warnings |-> 1, errors |-> 0]

\* get_date_from_exif; DATETIME_TAGS lists the tags in the order of ExifTags.TAGS
get_date_from_exif(exif) ==
    IF exif = None
    THEN [exc |-> "NoMatchException", value |-> None, warnings |-> 0, errors |-> 0]
    ELSE LET datetime_str ==
                 PyOr(PyOr(PyOr(None, exif[1]), exif[2]), exif[3])
         IN  IF datetime_str = None
             THEN [exc |-> "NoMatchException", value |-> None, warnings |-> 0, errors |-> 0]
             ELSE LET parsed == strptime(datetime_str, "exif") IN
                  IF parsed.exc = NoExc
                  THEN [exc |-> NoExc, value |-> parsed.value, warnings |-> 0, errors |-> 0]
                  ELSE [exc |-> "NoMatchException", value |-> None,
                        warnings |-> 1, errors |-> 0]

\* step 1 of get_snap_date (lines 145-162): exc is the exception that leaves the
\* try statement, NoExc when metadata_datetime is assigned
metadata_step(file) ==
    LET img_extension == SuffixTail(file.path.suffix)
        got ==
            IF img_extension \in IMAGE_EXTENSIONS
            THEN IF file.open # "ok"
                 THEN [exc |-> file.open, value |-> None, warnings |-> 0, errors |-> 0]
                 ELSE get_date_from_exif(file.exif)
            ELSE IF img_extension \in VIDEO_EXTENSIONS
            THEN get_date_from_video_metadata(file.probe)
            ELSE [exc |-> "NoMatchException", value |-> None, warnings |-> 0, errors |-> 0]
    IN  IF got.exc = "NoMatchException"
        THEN [exc |-> NoExc, value |-> None, warnings |-> got.warnings, errors |-> got.errors]
        ELSE got

\* step 2 of get_snap_date (lines 164-174)
filename_step(file) ==
    LET got == get_date_from_filename(file.match) IN
    IF got.exc = "NoMatchException"
    THEN [exc |-> NoExc, value |-> None]
    ELSE got

\* d.date()
DateOf(d) == <<year(d), month(d), day(d)>>

\* reconcile with step 3a returning metadata_datetime whichever source worked
reconcile_metadata_only(metadata, filename) ==
    IF (metadata # None) # (filename # None)
    THEN [exc |-> NoExc, value |-> metadata, warnings |-> 0, errors |-> 0]
    ELSE IF metadata = None /\ filename = None
    THEN [exc |-> "NoMatchException", value |-> None, warnings |-> 0, errors |-> 0]
    ELSE IF metadata = filename
    THEN [exc |-> NoExc, value |-> metadata, warnings |-> 0, errors |-> 0]
    ELSE IF DateOf(metadata) = DateOf(filename)
    THEN [exc |-> NoExc, value |-> metadata, warnings |-> 1, errors |-> 0]
    ELSE [exc |-> "NoMatchException", value |-> None, warnings |-> 0, errors |-> 1]

\* reconcile with step 3b.ii returning filename_datetime
reconcile_prefers_filename(metadata, filename) ==
    IF (metadata # None) # (filename # None)
    THEN IF metadata # None
         THEN [exc |-> NoExc, value |-> metadata, warnings |-> 0, errors |-> 0]
         ELSE [exc |-> NoExc, value |-> filename, warnings |-> 0, errors |-> 0]
    ELSE IF metadata = None /\ filename = None
    THEN [exc |-> "NoMatchException", value |-> None, warnings |-> 0, errors |-> 0]
    ELSE IF metadata = filename
    THEN [exc |-> NoExc, value |-> metadata, warnings |-> 0, errors |-> 0]
    ELSE IF DateOf(metadata) = DateOf(filename)
    THEN [exc |-> NoExc, value |-> filename, warnings |-> 1, errors |-> 0]
    ELSE [exc |-> "NoMatchException", value |-> None, warnings |-> 0, errors |-> 1]

\* reconcile with step 3b.iii relaxed: on a date mismatch the metadata one is used
reconcile_relaxed(metadata, filename) ==
    IF (metadata # None) # (filename # None)
    THEN IF metadata # None
         THEN [exc |-> NoExc, value |-> metadata, warnings |-> 0, errors |-> 0]
         ELSE [exc |-> NoExc, value |-> filename, warnings |-> 0, errors |-> 0]
    ELSE IF metadata = None /\ filename = None
    THEN [exc |-> "NoMatchException", value |-> None, warnings |-> 0, errors |-> 0]
    ELSE IF metadata = filename
    THEN [exc |-> NoExc, value |-> metadata, warnings |-> 0, errors |-> 0]
    ELSE IF DateOf(metadata) = DateOf(filename)
    THEN [exc |-> NoExc, value |-> metadata, warnings |-> 1, errors |-> 0]
    ELSE [exc |-> NoExc, value |-> metadata, warnings |-> 1, errors |-> 0]

\* steps 3a, 4 and 3b of get_snap_date (lines 176-209)
reconcile(metadata, filename) ==
    IF (metadata # None) # (filename # None)
    THEN IF metadata # None
         THEN [exc |-> NoExc, value |-> metadata, warnings |-> 0, errors |-> 0]
         ELSE [exc |-> NoExc, value |-> filename, warnings |-> 0, errors |-> 0]
    ELSE IF metadata = None /\ filename = None
    THEN [exc |-> "NoMatchException", value |-> None, warnings |-> 0, errors |-> 0]
    ELSE IF metadata = filename
    THEN [exc |-> NoExc, value |-> metadata, warnings |-> 0, errors |-> 0]
    ELSE IF DateOf(metadata) = DateOf(filename)
    THEN [exc |-> NoExc, value |-> metadata, warnings |-> 1, errors |-> 0]
    ELSE [exc |-> "NoMatchException", value |-> None, warnings |-> 0, errors |-> 1]

\* get_snap_date as one call: what it returns or raises
get_snap_date(file) ==
    LET m == metadata_step(file) IN
    IF m.exc # NoExc THEN [exc |-> m.exc, value |-> None]
    ELSE LET f == filename_step(file) IN
         IF f.exc # NoExc THEN [exc |-> f.exc, value |-> None]
         ELSE LET r == reconcile(m.value, f.value) IN
              [exc |-> r.exc, value |-> r.value]

----------------------------------------------------------------------------
(* get_snap_date, step by step, on one file *)

T1 == DateTime(2024, 3, 5, 14, 30, 0)

\* the date of T1, another time of day
T2 == DateTime(2024, 3, 5, 9, 15, 45)

\* another date
T3 == DateTime(2023, 12, 31, 23, 59, 59)

\* numbers that form no date: 2023 has no 29 February
BadStamp == DateTime(2023, 2, 29, 10, 0, 0)

ExifValues ==
    { None, EmptyText, Text("exif", T1, ""), Text("exif", T2, ""),
      Text("exif", BadStamp, ""), Text("iso", T1, "") }

ExifInputs ==
    {None} \cup
    { <<a, b, c>> : a \in ExifValues, b \in ExifValues, c \in ExifValues }

ProbeInputs ==
    { [exc |-> e, creation_time |-> None] :
        e \in {"NameError", "FFmpegError", "JSONDecodeError", "KeyError", "IndexError"} }
    \cup
    { [exc |-> NoExc, creation_time |-> t] :
        t \in { Text("iso", T1, ""), Text("iso", T1, ".000000Z"),
                Text("iso", T2, ".000000Z"), Text("iso", T1, "Z"),
                Text("iso", BadStamp, ""), Text("exif", T1, "") } }

\* file names and what the regex search finds in them
NameInputs ==
    { [stem |-> "holiday", match |-> None],
      [stem |-> "IMG_20240305_143000",
       match |-> DateTime(2024, 3, 5, 14, 30, 0)],
      [stem |-> "IMG_20240305_091545",
       match |-> DateTime(2024, 3, 5, 9, 15, 45)],
      [stem |-> "IMG_20231231_235959",
       match |-> DateTime(2023, 12, 31, 23, 59, 59)],
      [stem |-> "IMG-20240305-WA0001",
       match |-> DateTime(2024, 3, 5, NoGroup, NoGroup, NoGroup)],
      [stem |-> "scan-2024-03",
       match |-> DateTime(2024, 3, NoGroup, NoGroup, NoGroup, NoGroup)],
      [stem |-> "IMG_20241305_143000",
       match |-> DateTime(2024, 13, 5, 14, 30, 0)],
      [stem |-> "IMG_20230229_100000",
       match |-> DateTime(2023, 2, 29, 10, 0, 0)] }

\* the probe of a file that is never probed
NoProbe == [exc |-> "KeyError", creation_time |-> None]

File(stem, suffix, open, exif, probe, match) ==
    [path |-> [stem |-> stem, suffix |-> suffix],
     open |-> open, exif |-> exif, probe |-> probe, match |-> match]

ImageFiles ==
    { File(n.stem, ".jpg", "ok", e, NoProbe, n.match) : n \in NameInputs, e \in ExifInputs }
    \cup
    { File(n.stem, ".jpg", "UnidentifiedImageError", None, NoProbe, n.match) : n \in NameInputs }

VideoFiles ==
    { File(n.stem, ".mp4", "ok", None, p, n.match) : n \in NameInputs, p \in ProbeInputs }

OtherFiles ==
    { File(n.stem, ".txt", "ok", None, NoProbe, n.match) : n \in NameInputs }

FileInputs == ImageFiles \cup VideoFiles \cup OtherFiles

AssignOff ==
    /\ pictures = <<>>
    /\ pass = 1
    /\ pos = 0
    /\ used_paths = {}
    /\ yielded = <<>>
    /\ first_pass = <<>>
    /\ curr_picture = None
    /\ pc = "off"

SnapOff ==
    /\ img = <<>>
    /\ metadata_datetime = Unset
    /\ filename_datetime = Unset
    /\ warnings = 0
    /\ errors = 0
    /\ snap_result = None
    /\ snap_exc = NoExc
    /\ snap_pc = "off"

CollectOff ==
    /\ walk = <<>>
    /\ walk_pos = 0
    /\ collected = <<>>
    /\ skipped = <<>>
    /\ collect_exc = NoExc
    /\ collect_pc = "off"

InitSnap ==
    /\ img \in FileInputs
    /\ metadata_datetime = Unset
    /\ filename_datetime = Unset
    /\ warnings = 0
    /\ errors = 0
    /\ snap_result = None
    /\ snap_exc = NoExc
    /\ snap_pc = "metadata"
    /\ AssignOff
    /\ CollectOff

\* lines 145-162
MetadataStep ==
    /\ snap_pc = "metadata"
    /\ LET m == metadata_step(img) IN
       /\ warnings' = warnings + m.warnings
       /\ errors' = errors + m.errors
       /\ IF m.exc = NoExc
          THEN /\ metadata_datetime' = m.value
               /\ snap_pc' = "filename"
               /\ UNCHANGED snap_exc
          ELSE /\ snap_pc' = "raised"
               /\ snap_exc' = m.exc
               /\ UNCHANGED metadata_datetime
    /\ UNCHANGED <<img, filename_datetime, snap_result, assign_vars, collect_vars>>

\* lines 164-174
FilenameStep ==
    /\ snap_pc = "filename"
    /\ LET f == filename_step(img) IN
       IF f.exc = NoExc
       THEN /\ filename_datetime' = f.value
            /\ snap_pc' = "reconcile"
            /\ UNCHANGED snap_exc
       ELSE /\ snap_pc' = "raised"
            /\ snap_exc' = f.exc
            /\ UNCHANGED filename_datetime
    /\ UNCHANGED <<img, metadata_datetime, warnings, errors, snap_result, assign_vars,
                   collect_vars>>

\* lines 176-209
ReconcileStep ==
    /\ snap_pc = "reconcile"
    /\ LET r == reconcile(metadata_datetime, filename_datetime) IN
       /\ warnings' = warnings + r.warnings
       /\ errors' = errors + r.errors
       /\ IF r.exc = NoExc
          THEN snap_pc' = "returned" /\ snap_result' = r.value /\ UNCHANGED snap_exc
          ELSE snap_pc' = "raised" /\ snap_exc' = r.exc /\ UNCHANGED snap_result
    /\ UNCHANGED <<img, metadata_datetime, filename_datetime, assign_vars, collect_vars>>

NextSnap == MetadataStep \/ FilenameStep \/ ReconcileStep

SpecSnap == InitSnap /\ [][NextSnap]_vars

\* the call is over
SnapOver == snap_pc \in {"returned", "raised"}

\* both sources were consulted and each gave a timestamp or no evidence
BothConsulted == SnapOver /\ metadata_datetime # Unset /\ filename_datetime # Unset

BothSucceeded == BothConsulted /\ metadata_datetime # None /\ filename_datetime # None

BothFailed == BothConsulted /\ metadata_datetime = None /\ filename_datetime = None

\* C3: get_snap_date returns a timestamp or raises NoMatchException; no other
\* exception leaves it, whatever goes wrong inside a source.
C3_OnlyNoMatchEscapes ==
    snap_pc = "raised" => snap_exc = "NoMatchException"

\* C4: when exactly one of the two sources gives a timestamp and the other gives no
\* evidence, get_snap_date returns the timestamp of the one that succeeded.
C4_SingleSourceWins ==
    (BothConsulted /\ ((metadata_datetime = None) # (filename_datetime = None)))
        => /\ snap_pc = "returned"
           /\ snap_result =
                IF metadata_datetime # None THEN metadata_datetime ELSE filename_datetime
           /\ snap_result # None

\* the filename alone gave a timestamp, and it was returned
C4_FilenameOnlyReturned ==
    /\ snap_pc = "returned"
    /\ BothConsulted
    /\ metadata_datetime = None
    /\ filename_datetime # None
    /\ snap_result = filename_datetime

\* C5: when both sources give a timestamp of the same calendar date and a different
\* time of day, get_snap_date returns the metadata timestamp and the call logs
\* exactly one warning.
C5_LooseMatchUsesMetadata ==
    (BothSucceeded /\ metadata_datetime # filename_datetime
                   /\ DateOf(metadata_datetime) = DateOf(filename_datetime))
        => /\ snap_pc = "returned"
           /\ snap_result = metadata_datetime
           /\ warnings = 1

\* a loose match was reconciled
C5_LooseMatchReturned ==
    /\ snap_pc = "returned"
    /\ BothSucceeded
    /\ metadata_datetime # filename_datetime
    /\ DateOf(metadata_datetime) = DateOf(filename_datetime)
    /\ snap_result # filename_datetime

\* C6: get_snap_date raises NoMatchException exactly when both sources gave no
\* evidence or both gave timestamps of different calendar dates; with one
\* success, equal timestamps or a loose match it returns a timestamp.
C6_NoMatchExactlyWhen ==
    SnapOver =>
        LET DatesDiffer ==
                BothSucceeded /\ DateOf(metadata_datetime) # DateOf(filename_datetime)
        IN  /\ (snap_pc = "raised" /\ snap_exc = "NoMatchException")
                    <=> (BothFailed \/ DatesDiffer)
            /\ (BothConsulted /\ ~BothFailed /\ ~DatesDiffer)
                    => /\ snap_pc = "returned"
                       /\ snap_result \in {metadata_datetime, filename_datetime}
                       /\ snap_result # None

\* both sources gave a timestamp, of different dates, and the call raised
C6_DateMismatchRaised ==
    /\ snap_pc = "raised"
    /\ snap_exc = "NoMatchException"
    /\ BothSucceeded
    /\ DateOf(metadata_datetime) # DateOf(filename_datetime)

----------------------------------------------------------------------------
(* picture.py *)

\* Path.suffix of the source paths used here, lowercased and with the leading
\* dot removed: source_path.suffix.lower()[1:]
SuffixLowerTail(suffix) ==
    CASE suffix = ".jpg"  -> "jpg"
      [] suffix = ".JPG"  -> "jpg"
      [] suffix = ".jpeg" -> "jpeg"
      [] suffix = ".JPEG" -> "jpeg"
      [] suffix = ".tiff" -> "tiff"
      [] suffix = ".TIFF" -> "tiff"
      [] suffix = ".tif"  -> "tif"
      [] suffix = ".png"  -> "png"
      [] suffix = ".mp4"  -> "mp4"
      [] suffix = ".MP4"  -> "mp4"
      [] suffix = ".mov"  -> "mov"
      [] suffix = ""      -> ""
      [] OTHER            -> "txt"

\* Picture.extension
extension(picture) ==
    LET ext == SuffixLowerTail(picture.source_path.suffix) IN
    IF ext = "jpeg" THEN "jpg"
    ELSE IF ext = "tiff" THEN "tif"
    ELSE ext

\* Picture.is_video
is_video(picture) == extension(picture) \in VIDEO_EXTENSIONS

\* Picture.get_output_path: the output path as the string Path(folder) / filename
get_output_path(picture, duplicate_count) ==
    LET d   == picture.snap_date
        tag == IF is_video(picture) THEN "VID" ELSE "IMG"
        ext == extension(picture)
        ymdhms_str ==
            ToString(year(d)) \o "-" \o ToString(month(d)) \o "-" \o ToString(day(d))
              \o "-" \o ToString(hour(d)) \o "h" \o ToString(minute(d))
              \o (IF second(d) # 0 THEN "m" \o ToString(second(d)) \o "s" ELSE "")
        filename == ymdhms_str \o "_" \o tag \o ToString(duplicate_count) \o "." \o ext
        folder   == ToString(year(d)) \o "/" \o ToString(month(d))
    IN  folder \o "/" \o filename

----------------------------------------------------------------------------
(* picture_manip.collect_pictures *)

\* the files of the directories walked: one file of each kind of outcome
CollectFiles ==
    { File("IMG_20240305_143000", ".jpg", "ok",
           <<Text("exif", T1, ""), None, None>>, NoProbe, DateTime(2024, 3, 5, 14, 30, 0)),
      File("holiday", ".mp4", "ok", None,
           [exc |-> NoExc, creation_time |-> Text("iso", T2, ".000000Z")], None),
      File("holiday", ".jpg", "ok", <<None, None, None>>, NoProbe, None),
      File("IMG_20231231_235959", ".jpg", "ok",
           <<Text("exif", T1, ""), None, None>>, NoProbe, DateTime(2023, 12, 31, 23, 59, 59)),
      File("IMG_20241305_143000", ".jpg", "ok", None, NoProbe,
           DateTime(2024, 13, 5, 14, 30, 0)),
      File("holiday", ".jpg", "UnidentifiedImageError", None, NoProbe, None),
      File("IMG_20240305_143000", ".txt", "ok", None, NoProbe,
           DateTime(2024, 3, 5, 14, 30, 0)) }

\* file.suffix[1:] in SUPPORTED_EXTENSIONS
Supported(file) == SuffixTail(file.path.suffix) \in SUPPORTED_EXTENSIONS

\* Picture(source_path=file, snap_date=snap_date)
Picture(file, snap_date) == [source_path |-> file.path, snap_date |-> snap_date]

InitCollect ==
    /\ walk \in SeqsUpTo(CollectFiles, MaxFiles)
    /\ walk_pos = 0
    /\ collected = <<>>
    /\ skipped = <<>>
    /\ collect_exc = NoExc
    /\ collect_pc = "running"
    /\ AssignOff
    /\ SnapOff

\* a file whose extension is not supported: the loop goes on (line 17)
SkipUnsupported ==
    /\ collect_pc = "running"
    /\ walk_pos < Len(walk)
    /\ ~Supported(walk[walk_pos + 1])
    /\ walk_pos' = walk_pos + 1
    /\ UNCHANGED <<walk, collected, skipped, collect_exc, collect_pc, assign_vars, snap_vars>>

\* get_snap_date returns: the Picture is yielded (lines 19, 26-27)
YieldPicture ==
    /\ collect_pc = "running"
    /\ walk_pos < Len(walk)
    /\ LET file == walk[walk_pos + 1]
           got == get_snap_date(file)
       IN  /\ Supported(file)
           /\ got.exc = NoExc
           /\ collected' = Append(collected, Picture(file, got.value))
    /\ walk_pos' = walk_pos + 1
    /\ UNCHANGED <<walk, skipped, collect_exc, collect_pc, assign_vars, snap_vars>>

\* get_snap_date raises NoMatchException: the file is skipped (lines 20-24)
SkipNoMatch ==
    /\ collect_pc = "running"
    /\ walk_pos < Len(walk)
    /\ LET file == walk[walk_pos + 1]
           got == get_snap_date(file)
       IN  /\ Supported(file)
           /\ got.exc = "NoMatchException"
           /\ skipped' = Append(skipped, file)
    /\ walk_pos' = walk_pos + 1
    /\ UNCHANGED <<walk, collected, collect_exc, collect_pc, assign_vars, snap_vars>>

\* get_snap_date raises anything else: nothing catches it, the generator ends
\* with that exception (lines 18-20)
RaiseOther ==
    /\ collect_pc = "running"
    /\ walk_pos < Len(walk)
    /\ LET file == walk[walk_pos + 1]
           got == get_snap_date(file)
       IN  /\ Supported(file)
           /\ got.exc \notin {NoExc, "NoMatchException"}
           /\ collect_exc' = got.exc
    /\ collect_pc' = "raised"
    /\ walk_pos' = walk_pos + 1
    /\ UNCHANGED <<walk, collected, skipped, assign_vars, snap_vars>>

\* walk_dir is exhausted: the generator returns
WalkDone ==
    /\ collect_pc = "running"
    /\ walk_pos = Len(walk)
    /\ collect_pc' = "done"
    /\ UNCHANGED <<walk, walk_pos, collected, skipped, collect_exc, assign_vars, snap_vars>>

NextCollect == SkipUnsupported \/ YieldPicture \/ SkipNoMatch \/ RaiseOther \/ WalkDone

SpecCollect == InitCollect /\ [][NextCollect]_vars

\* the generator has ended, by returning or by an exception
CollectOver == collect_pc \in {"done", "raised"}

\* C8: a file whose reconciliation fails is skipped without ending the run: once
\* the run is over, every supported file that comes later in the walk and whose
\* reconciliation succeeds has been yielded with its snap date.
C8_LaterFilesStillYielded ==
    CollectOver =>
        \A i \in 1..Len(walk) : \A j \in (i + 1)..Len(walk) :
            ( /\ Supported(walk[i])
              /\ get_snap_date(walk[i]).exc = "NoMatchException"
              /\ Supported(walk[j])
              /\ get_snap_date(walk[j]).exc = NoExc )
            => \E k \in 1..Len(collected) :
                  collected[k] = Picture(walk[j], get_snap_date(walk[j]).value)

----------------------------------------------------------------------------
(* picture_manip.get_path_couples *)

\* the while loop of get_path_couples: the first duplicate_count, counting up
\* from the given one, whose output path is not in used
RECURSIVE duplicate_count_loop(_, _, _)
duplicate_count_loop(picture, used, duplicate_count) ==
    IF get_output_path(picture, duplicate_count) \in used
    THEN duplicate_count_loop(picture, used, duplicate_count + 1)
    ELSE duplicate_count

\* inputs: pictures as the caller may build them
SourcePaths ==
    { [stem |-> "a", suffix |-> ".jpg"],
      [stem |-> "b", suffix |-> ".JPEG"],
      [stem |-> "c", suffix |-> ".mp4"],
      [stem |-> "d", suffix |-> ".TIFF"] }

SnapDates ==
    { DateTime(2024, 3, 5, 14, 30, 0), DateTime(2024, 3, 5, 14, 30, 45) }

PictureInputs == [source_path : SourcePaths, snap_date : SnapDates]

InitAssign ==
    /\ pictures \in SeqsUpTo(PictureInputs, MaxPictures)
    /\ pass = 1
    /\ pos = 0
    /\ used_paths = {}
    /\ yielded = <<>>
    /\ first_pass = <<>>
    /\ curr_picture = None
    /\ pc = "idle"
    /\ SnapOff
    /\ CollectOff

\* the output paths of a sequence of yielded pairs
OutputPaths(pairs) == { pairs[i].out : i \in 1..Len(pairs) }

\* StartPass with used_paths living on between calls and remembering what the
\* first pass gave out
StartPass_remembers ==
    /\ pc = "idle"
    /\ pc' = "running"
    /\ used_paths' = used_paths \cup OutputPaths(first_pass)
    /\ pos' = 0
    /\ yielded' = <<>>
    /\ UNCHANGED <<pictures, pass, first_pass, curr_picture, snap_vars, collect_vars>>

\* the call: used_paths = set() (line 37); the generator body starts to run
StartPass ==
    /\ pc = "idle"
    /\ pc' = "running"
    /\ used_paths' = {}
    /\ pos' = 0
    /\ yielded' = <<>>
    /\ UNCHANGED <<pictures, pass, first_pass, curr_picture, snap_vars, collect_vars>>

\* ProcessItem dropping a picture whose first candidate path was already yielded
ProcessItem_drops_duplicate ==
    /\ pc = "running"
    /\ pos < Len(pictures)
    /\ LET picture == pictures[pos + 1]
           output_path == get_output_path(picture, 1)
       IN  /\ curr_picture' = <<picture>>
           /\ yielded' =
                IF output_path \in OutputPaths(yielded) THEN yielded
                ELSE Append(yielded, [src |-> picture.source_path, out |-> output_path])
    /\ pos' = pos + 1
    /\ UNCHANGED <<pictures, pass, used_paths, first_pass, pc, snap_vars, collect_vars>>

\* one round of the for loop, up to its yield (lines 39-47)
ProcessItem ==
    /\ pc = "running"
    /\ pos < Len(pictures)
    /\ LET picture == pictures[pos + 1]
           duplicate_count == duplicate_count_loop(picture, used_paths, 1)
           output_path == get_output_path(picture, duplicate_count)
       IN  /\ curr_picture' = <<picture>>
           /\ yielded' = Append(yielded, [src |-> picture.source_path, out |-> output_path])
    /\ pos' = pos + 1
    /\ UNCHANGED <<pictures, pass, used_paths, first_pass, pc, snap_vars, collect_vars>>

\* the iterable is exhausted: line 48 after the last yield, then the generator returns
Exhausted ==
    /\ pc = "running"
    /\ pos = Len(pictures)
    /\ pc' = "exhausted"
    /\ curr_picture' = None
    /\ first_pass' = IF pass = 1 THEN yielded ELSE first_pass
    /\ UNCHANGED <<pictures, pass, pos, used_paths, yielded, snap_vars, collect_vars>>

\* get_path_couples is called again on the same ordered input
NextPass ==
    /\ pc = "exhausted"
    /\ pass < MaxPasses
    /\ pass' = pass + 1
    /\ pc' = "idle"
    /\ UNCHANGED <<pictures, pos, used_paths, yielded, first_pass, curr_picture, snap_vars, collect_vars>>

NextAssign == StartPass \/ ProcessItem \/ Exhausted \/ NextPass

SpecAssign == InitAssign /\ [][NextAssign]_vars

\* the consumer keeps pulling the generator until it is exhausted
SpecAssignFair == SpecAssign /\ WF_vars(NextAssign)

\* C1: the output paths yielded in one pass are pairwise distinct.
C1_PathsPairwiseDistinct ==
    \A i \in 1..Len(yielded) : \A j \in 1..Len(yielded) :
        i # j => yielded[i].out # yielded[j].out

\* the smallest counter c >= 1 whose candidate path for the i-th picture was not
\* yielded for an earlier picture of the pass
SmallestFreeCount(i) ==
    LET earlier == { yielded[j].out : j \in 1..(i - 1) }
        free(c) == get_output_path(pictures[i], c) \notin earlier
    IN  CHOOSE c \in 1..i : free(c) /\ \A b \in 1..(c - 1) : ~free(b)

\* C2: the counter in each yielded path is the smallest c >= 1 whose candidate
\* path was not yielded earlier in the pass (the k-th picture of the same snap
\* date, tag and extension gets counter k).
C2_CounterIsSmallestFree ==
    \A i \in 1..Len(yielded) :
        yielded[i].out = get_output_path(pictures[i], SmallestFreeCount(i))

\* C7: a later pass over the same pictures yields what the first pass yielded,
\* pair for pair.
C7_PassesAgree ==
    pass > 1 =>
        /\ Len(yielded) <= Len(first_pass)
        /\ \A i \in 1..Len(yielded) : yielded[i] = first_pass[i]
        /\ pc = "exhausted" => yielded = first_pass

\* a second pass over pictures that collide has ended
C7_SecondPassEnded ==
    /\ pass = 2
    /\ pc = "exhausted"
    /\ Len(yielded) >= 2
    /\ yielded = first_pass
    /\ \E i \in 1..Len(pictures) : \E j \in 1..Len(pictures) :
          i # j /\ get_output_path(pictures[i], 1) = get_output_path(pictures[j], 1)

\* C9: used_paths starts empty and, after each item, holds exactly the output
\* paths yielded so far in the pass.
C9_UsedPathsAreYieldedPaths ==
    pc \in {"running", "exhausted"} => used_paths = OutputPaths(yielded)

\* one pair per picture, in input order
OnePairPerPicture ==
    /\ Len(yielded) = Len(pictures)
    /\ \A i \in 1..Len(pictures) : yielded[i].src = pictures[i].source_path

\* C10: every pass ends, having yielded one pair per picture in input order.
C10_PassEnds ==
    (pc = "running") ~> (pc = "exhausted" /\ OnePairPerPicture)

\* a pass over pictures that collide has ended with one pair per picture
C10_PassEnded ==
    /\ pc = "exhausted"
    /\ Len(pictures) >= 2
    /\ OnePairPerPicture
    /\ \E i \in 1..Len(pictures) : \E j \in 1..Len(pictures) :
          i # j /\ get_output_path(pictures[i], 1) = get_output_path(pictures[j], 1)

====
